---- MODULE Spec2Model ----
(***************************************************************************)
(* AuthenticationSimulator (script.py): login URL generation, SHA-256      *)
(* hashing of api_key + request_code + api_secret, the mock token          *)
(* exchange, and the test_authentication_flow smoke test.                  *)
(*                                                                         *)
(* Python str values are TLA+ strings over printable ASCII; Len, \o and    *)
(* SubSeq act on them as len(), + and slicing do.  Dicts are functions     *)
(* from their keys.  32-bit words of SHA-256 are pairs <<hi, lo>> of       *)
(* 16-bit halves.                                                          *)
(***************************************************************************)
EXTENDS Integers, Sequences, FiniteSets, TLC

----------------------------------------------------------------------------
(* Strings *)

Min(a, b) == IF a < b THEN a ELSE b

\* runs of printable ASCII, each with the code point of its first character
AsciiRuns == <<
    <<32, " !">>,
    <<35, "#$%&'()*+,-./0123456789:;<=>?@ABCDEFGHIJKLMNOPQRSTUVWXYZ[">>,
    <<93, "]^_">>,
    <<97, "abcdefghijklmnopqrstuvwxyz{|}~">> >>

CharAt(s, i) == SubSeq(s, i, i)

\* ord(c) of a one-character string
OrdTable ==
    LET at == {<<r, i>> \in (1..Len(AsciiRuns)) \X (1..64) : i <= Len(AsciiRuns[r][2])}
    IN  [c \in {CharAt(AsciiRuns[p[1]][2], p[2]) : p \in at} |->
            LET p == CHOOSE q \in at : CharAt(AsciiRuns[q[1]][2], q[2]) = c
            IN  AsciiRuns[p[1]][1] + p[2] - 1]

Ord(c) == OrdTable[c]

\* s[:n]
Prefix(s, n) == SubSeq(s, 1, Min(n, Len(s)))

\* needle in hay
Contains(hay, needle) ==
    \E i \in 1..(Len(hay) - Len(needle) + 1) :
        SubSeq(hay, i, i + Len(needle) - 1) = needle

\* the bytes of one code point in UTF-8
Utf8Char(cp) ==
    IF cp < 128 THEN <<cp>>
    ELSE IF cp < 2048 THEN <<192 + (cp \div 64), 128 + (cp % 64)>>
    ELSE IF cp < 65536 THEN
        <<224 + (cp \div 4096), 128 + ((cp \div 64) % 64), 128 + (cp % 64)>>
    ELSE <<240 + (cp \div 262144), 128 + ((cp \div 4096) % 64),
           128 + ((cp \div 64) % 64), 128 + (cp % 64)>>

RECURSIVE Utf8From(_, _)
Utf8From(s, i) ==
    IF i > Len(s) THEN <<>>
    ELSE Utf8Char(Ord(CharAt(s, i))) \o Utf8From(s, i + 1)

\* s.encode()
Encode(s) == Utf8From(s, 1)

----------------------------------------------------------------------------
(* hashlib.sha256: FIPS 180-4 over a byte sequence *)

Pow2 == <<1, 2, 4, 8, 16, 32, 64, 128, 256, 512, 1024, 2048, 4096, 8192,
          16384, 32768, 65536>>

P2(n) == Pow2[n + 1]

RECURSIVE XorBits(_, _, _)
XorBits(a, b, n) ==
    IF n = 0 THEN 0
    ELSE ((a + b) % 2) + (2 * XorBits(a \div 2, b \div 2, n - 1))

RECURSIVE AndBits(_, _, _)
AndBits(a, b, n) ==
    IF n = 0 THEN 0
    ELSE ((a % 2) * (b % 2)) + (2 * AndBits(a \div 2, b \div 2, n - 1))

\* bitwise operations on bytes, tabulated: XorByte[a + 1][b + 1] is a ^ b
XorByte == [a \in 1..256 |-> [b \in 1..256 |-> XorBits(a - 1, b - 1, 8)]]
AndByte == [a \in 1..256 |-> [b \in 1..256 |-> AndBits(a - 1, b - 1, 8)]]

\* on 16-bit halves
XorH(a, b) ==
    (256 * XorByte[(a \div 256) + 1][(b \div 256) + 1])
    + XorByte[(a % 256) + 1][(b % 256) + 1]
AndH(a, b) ==
    (256 * AndByte[(a \div 256) + 1][(b \div 256) + 1])
    + AndByte[(a % 256) + 1][(b % 256) + 1]
NotH(a) == 65535 - a

\* on 32-bit words
Xor(x, y) == <<XorH(x[1], y[1]), XorH(x[2], y[2])>>
And(x, y) == <<AndH(x[1], y[1]), AndH(x[2], y[2])>>
Not(x) == <<NotH(x[1]), NotH(x[2])>>
Xor3(x, y, z) == Xor(Xor(x, y), z)
Ch(x, y, z) == Xor(And(x, y), And(Not(x), z))
Maj(x, y, z) == Xor3(And(x, y), And(x, z), And(y, z))

\* addition modulo 2^32
Add(x, y) ==
    LET lo == x[2] + y[2]
    IN  <<(x[1] + y[1] + (lo \div P2(16))) % P2(16), lo % P2(16)>>

\* rotate right by n, 0 < n < 32
Rotr(x, n) ==
    LET y == IF n >= 16 THEN <<x[2], x[1]>> ELSE x
        m == n % 16
    IN  IF m = 0 THEN y
        ELSE <<(y[1] \div P2(m)) + ((y[2] % P2(m)) * P2(16 - m)),
               (y[2] \div P2(m)) + ((y[1] % P2(m)) * P2(16 - m))>>

\* shift right by n, 0 < n < 16
Shr(x, n) ==
    <<x[1] \div P2(n), (x[2] \div P2(n)) + ((x[1] % P2(n)) * P2(16 - n))>>

BigSigma0(x) == Xor3(Rotr(x, 2), Rotr(x, 13), Rotr(x, 22))
BigSigma1(x) == Xor3(Rotr(x, 6), Rotr(x, 11), Rotr(x, 25))
SmallSigma0(x) == Xor3(Rotr(x, 7), Rotr(x, 18), Shr(x, 3))
SmallSigma1(x) == Xor3(Rotr(x, 17), Rotr(x, 19), Shr(x, 10))

HexDigits == "0123456789abcdef"

\* the value of a word written as 8 hex digits
RECURSIVE HexVal(_, _)
HexVal(s, i) ==
    IF i = 0 THEN 0
    ELSE (16 * HexVal(s, i - 1))
         + (CHOOSE d \in 0..15 : CharAt(HexDigits, d + 1) = CharAt(s, i))

W32(s) == <<HexVal(SubSeq(s, 1, 4), 4), HexVal(SubSeq(s, 5, 8), 4)>>

ShaH0 == [i \in 1..8 |-> W32(<<
    "6a09e667", "bb67ae85", "3c6ef372", "a54ff53a",
    "510e527f", "9b05688c", "1f83d9ab", "5be0cd19">>[i])]

ShaK == [i \in 1..64 |-> W32(<<
    "428a2f98", "71374491", "b5c0fbcf", "e9b5dba5", "3956c25b", "59f111f1",
    "923f82a4", "ab1c5ed5", "d807aa98", "12835b01", "243185be", "550c7dc3",
    "72be5d74", "80deb1fe", "9bdc06a7", "c19bf174", "e49b69c1", "efbe4786",
    "0fc19dc6", "240ca1cc", "2de92c6f", "4a7484aa", "5cb0a9dc", "76f988da",
    "983e5152", "a831c66d", "b00327c8", "bf597fc7", "c6e00bf3", "d5a79147",
    "06ca6351", "14292967", "27b70a85", "2e1b2138", "4d2c6dfc", "53380d13",
    "650a7354", "766a0abb", "81c2c92e", "92722c85", "a2bfe8a1", "a81a664b",
    "c24b8b70", "c76c51a3", "d192e819", "d6990624", "f40e3585", "106aa070",
    "19a4c116", "1e376c08", "2748774c", "34b0bcb5", "391c0cb3", "4ed8aa4a",
    "5b9cca4f", "682e6ff3", "748f82ee", "78a5636f", "84c87814", "8cc70208",
    "90befffa", "a4506ceb", "bef9a3f7", "c67178f2">>[i])]

\* message bytes, 0x80, zero fill to 56 mod 64, 64-bit big-endian bit length
Pad(bytes) ==
    LET n == Len(bytes)
        z == (119 - (n % 64)) % 64
        bits == 8 * n
    IN  bytes \o <<128>> \o [i \in 1..z |-> 0]
        \o <<0, 0, 0, 0, (bits \div 16777216) % 256, (bits \div 65536) % 256,
             (bits \div 256) % 256, bits % 256>>

\* the 16 big-endian words of block b (from 0) of the padded message
Block(p, b) ==
    [i \in 1..16 |->
        LET o == 64 * b + 4 * (i - 1)
        IN  <<(256 * p[o + 1]) + p[o + 2], (256 * p[o + 3]) + p[o + 4]>>]

RECURSIVE Schedule(_)
Schedule(w) ==
    IF Len(w) = 64 THEN w
    ELSE LET t == Len(w) + 1
         IN  Schedule(Append(w,
                 Add(Add(SmallSigma1(w[t - 2]), w[t - 7]),
                     Add(SmallSigma0(w[t - 15]), w[t - 16]))))

\* one round of the compression function on the working variables a..h
Round(v, w, t) ==
    LET t1 == Add(Add(Add(v[8], BigSigma1(v[5])), Ch(v[5], v[6], v[7])),
                  Add(ShaK[t], w[t]))
        t2 == Add(BigSigma0(v[1]), Maj(v[1], v[2], v[3]))
    IN  <<Add(t1, t2), v[1], v[2], v[3], Add(v[4], t1), v[5], v[6], v[7]>>

\* vs[t + 1] is the working variables after round t
RECURSIVE Rounds(_, _)
Rounds(vs, w) ==
    IF Len(vs) = 65 THEN vs[65]
    ELSE Rounds(Append(vs, Round(vs[Len(vs)], w, Len(vs))), w)

Compress(h, blk) ==
    LET v == Rounds(<<h>>, Schedule(blk))
    IN  [i \in 1..8 |-> Add(h[i], v[i])]

RECURSIVE Blocks(_, _, _)
Blocks(h, p, b) ==
    IF 64 * b >= Len(p) THEN h
    ELSE Blocks(Compress(h, Block(p, b)), p, b + 1)

HexHalf(x) ==
    CharAt(HexDigits, (x \div 4096) + 1)
    \o CharAt(HexDigits, ((x \div 256) % 16) + 1)
    \o CharAt(HexDigits, ((x \div 16) % 16) + 1)
    \o CharAt(HexDigits, (x % 16) + 1)

RECURSIVE HexWords(_, _)
HexWords(h, i) ==
    IF i > Len(h) THEN ""
    ELSE HexHalf(h[i][1]) \o HexHalf(h[i][2]) \o HexWords(h, i + 1)

\* hashlib.sha256(bytes).hexdigest()
Sha256Hex(bytes) == HexWords(Blocks(ShaH0, Pad(bytes), 0), 1)

----------------------------------------------------------------------------
(* The values the model runs over *)

\* __init__'s values
DefaultApiKey == "test_api_key"
DefaultApiSecret == "test_api_secret"
DefaultRedirectUri == "http://localhost:5000/api/auth/callback"
DefaultTokenEndpoint == "https://authapi.flattrade.in/trade/apitoken"
DefaultAuthPortal == "https://auth.flattrade.in/"

\* test_authentication_flow's request code
MockRequestCode == "test_request_code_123"

\* request codes are cut to this many characters in the token
TokenCodeLen == 8
ExpiresIn == 86400
DigestLen == 64

\* the longest prefix of MockRequestCode tried as a request code
MaxCodeLen == 9

ApiKeys == {"", "k", DefaultApiKey}
ApiSecrets == {"a", "Ok", DefaultApiSecret}
RedirectUris == {"", DefaultRedirectUri}
AuthPortals == {"p", DefaultAuthPortal}
RequestCodes ==
    {Prefix(MockRequestCode, n) : n \in 0..MaxCodeLen} \cup {"abc123", MockRequestCode}

\* the simulator as constructed by __init__
DefaultSimulator ==
    [api_key |-> DefaultApiKey, api_secret |-> DefaultApiSecret,
     redirect_uri |-> DefaultRedirectUri, token_endpoint |-> DefaultTokenEndpoint,
     auth_portal |-> DefaultAuthPortal]

\* digests of the messages the model hashes, computed once
Sha256Table ==
    [m \in {k \o c \o s : k \in ApiKeys, c \in RequestCodes, s \in ApiSecrets}
        |-> Sha256Hex(Encode(m))]

\* hashlib.sha256(s.encode()).hexdigest()
sha256_hexdigest(s) ==
    IF s \in DOMAIN Sha256Table THEN Sha256Table[s] ELSE Sha256Hex(Encode(s))

----------------------------------------------------------------------------
(* The methods of AuthenticationSimulator, as functions of self *)

\* Python's truth value of a str
Truthy(s) == s /= ""

\* generate_login_url refusing only when both values are missing
generate_login_url_both_missing(self) ==
    IF ~Truthy(self.api_key) /\ ~Truthy(self.redirect_uri)
    THEN [error |-> "Missing configuration"]
    ELSE [success |-> TRUE,
          loginUrl |-> self.auth_portal \o "?app_key=" \o self.api_key
                       \o "&redirect_uri=" \o self.redirect_uri]

\* generate_login_url with the two values in each other's place
generate_login_url_swapped(self) ==
    IF ~Truthy(self.api_key) \/ ~Truthy(self.redirect_uri)
    THEN [error |-> "Missing configuration"]
    ELSE [success |-> TRUE,
          loginUrl |-> self.auth_portal \o "?app_key=" \o self.redirect_uri
                       \o "&redirect_uri=" \o self.api_key]

generate_login_url(self) ==
    IF ~Truthy(self.api_key) \/ ~Truthy(self.redirect_uri)
    THEN [error |-> "Missing configuration"]
    ELSE [success |-> TRUE,
          loginUrl |-> self.auth_portal \o "?app_key=" \o self.api_key
                       \o "&redirect_uri=" \o self.redirect_uri]

\* simulate_sha256_hashing with the secret hashed first
simulate_sha256_hashing_secret_first(self, request_code) ==
    LET hash_input == self.api_secret \o request_code \o self.api_key
        hashed_secret == sha256_hexdigest(hash_input)
    IN  [api_key |-> self.api_key, api_secret |-> hashed_secret,
         request_code |-> request_code]

simulate_sha256_hashing(self, request_code) ==
    LET hash_input == self.api_key \o request_code \o self.api_secret
        hashed_secret == sha256_hexdigest(hash_input)
    IN  [api_key |-> self.api_key, api_secret |-> hashed_secret,
         request_code |-> request_code]

\* a local that was never assigned
Unbound == [unbound |-> TRUE]

\* validate_token_exchange hashing before it looks at the request code
validate_token_exchange_hash_first(self, request_code) ==
    LET token_data == simulate_sha256_hashing(self, request_code)
    IN  IF ~Truthy(request_code)
        THEN [value |-> [error |-> "No request code provided"],
              token_data |-> token_data]
        ELSE [value |-> [success |-> TRUE,
                         token |-> "mock_token_" \o Prefix(request_code, TokenCodeLen),
                         expires_in |-> ExpiresIn,
                         status |-> "Ok"],
              token_data |-> token_data]

\* validate_token_exchange cutting the request code one character short
validate_token_exchange_short(self, request_code) ==
    IF ~Truthy(request_code)
    THEN [value |-> [error |-> "No request code provided"], token_data |-> Unbound]
    ELSE LET token_data == simulate_sha256_hashing(self, request_code)
         IN  [value |-> [success |-> TRUE,
                         token |-> "mock_token_"
                                   \o Prefix(request_code, TokenCodeLen - 1),
                         expires_in |-> ExpiresIn,
                         status |-> "Ok"],
              token_data |-> token_data]

\* validate_token_exchange making the token from the hashed payload
validate_token_exchange_from_hash(self, request_code) ==
    IF ~Truthy(request_code)
    THEN [value |-> [error |-> "No request code provided"], token_data |-> Unbound]
    ELSE LET token_data == simulate_sha256_hashing(self, request_code)
         IN  [value |-> [success |-> TRUE,
                         token |-> "mock_token_"
                                   \o Prefix(token_data.api_secret, TokenCodeLen),
                         expires_in |-> ExpiresIn,
                         status |-> "Ok"],
              token_data |-> token_data]

\* validate_token_exchange at its return: the value returned and the local token_data
validate_token_exchange(self, request_code) ==
    IF ~Truthy(request_code)
    THEN [value |-> [error |-> "No request code provided"], token_data |-> Unbound]
    ELSE LET token_data == simulate_sha256_hashing(self, request_code)
         IN  [value |-> [success |-> TRUE,
                         token |-> "mock_token_" \o Prefix(request_code, TokenCodeLen),
                         expires_in |-> ExpiresIn,
                         status |-> "Ok"],
              token_data |-> token_data]

----------------------------------------------------------------------------
(* State *)

VARIABLES
    api_key, api_secret, redirect_uri, token_endpoint, auth_portal, \* self
    created,        \* self as it was constructed
    call,           \* the last call made by the caller: [op, arg]
    ret,            \* what it returned
    token_data,     \* validate_token_exchange's local at its last return
    pc,             \* "idle", inside test_authentication_flow, or "raised"
    login_result, token_result, hash_result, \* test_authentication_flow's locals
    out,            \* the lines test_authentication_flow printed
    exc,            \* the exception that ended the program, or "none"
    noted,          \* an earlier call and its return value, remembered for comparison
    peer_key, peer_secret, \* api_key and api_secret of a second simulator
    peer_call, peer_ret    \* the last call made on it and what it returned

fields == <<api_key, api_secret, redirect_uri, token_endpoint, auth_portal>>
locals == <<login_result, token_result, hash_result>>
peer == <<peer_key, peer_secret, peer_call, peer_ret>>
vars == <<fields, created, call, ret, token_data, pc, locals, out, exc, noted, peer>>

Self ==
    [api_key |-> api_key, api_secret |-> api_secret, redirect_uri |-> redirect_uri,
     token_endpoint |-> token_endpoint, auth_portal |-> auth_portal]

\* the second simulator: it differs from self in api_key and api_secret only
Peer == [Self EXCEPT !.api_key = peer_key, !.api_secret = peer_secret]

NoCall == [op |-> "none", arg |-> ""]
NoValue == [none |-> TRUE]
\* Python's True as a returned value
True == [bool |-> TRUE]

InitCommon ==
    /\ token_endpoint = DefaultTokenEndpoint
    /\ created = Self
    /\ call = NoCall
    /\ ret = NoValue
    /\ token_data = Unbound
    /\ pc = "idle"
    /\ login_result = Unbound
    /\ token_result = Unbound
    /\ hash_result = Unbound
    /\ out = <<>>
    /\ exc = "none"
    /\ noted = [call |-> NoCall, ret |-> NoValue, later |-> FALSE]
    /\ peer_call = NoCall
    /\ peer_ret = NoValue

\* one simulator, its fields set by the caller
Init ==
    /\ api_key \in ApiKeys
    /\ api_secret \in ApiSecrets
    /\ redirect_uri \in RedirectUris
    /\ auth_portal \in AuthPortals
    /\ peer_key = api_key
    /\ peer_secret = api_secret
    /\ InitCommon

----------------------------------------------------------------------------
(* Calls made by the caller *)

\* history kept for the properties: what was noted has, from now on, other calls
\* after it
Aged == IF noted.call.op = "none" THEN noted ELSE [noted EXCEPT !.later = TRUE]

GenerateLoginUrl ==
    /\ pc = "idle"
    /\ call' = [op |-> "generate_login_url", arg |-> ""]
    /\ ret' = generate_login_url(Self)
    /\ token_data' = Unbound
    /\ noted' = Aged
    /\ UNCHANGED <<fields, created, pc, locals, out, exc, peer>>

\* simulate_sha256_hashing answering a call that follows another one of it with
\* the value it returned then, whatever the request code
SimulateSha256HashingCached(request_code) ==
    /\ pc = "idle"
    /\ call' = [op |-> "simulate_sha256_hashing", arg |-> request_code]
    /\ ret' = IF call.op = "simulate_sha256_hashing" THEN ret
              ELSE simulate_sha256_hashing(Self, request_code)
    /\ token_data' = Unbound
    /\ noted' = Aged
    /\ UNCHANGED <<fields, created, pc, locals, out, exc, peer>>

SimulateSha256Hashing(request_code) ==
    /\ pc = "idle"
    /\ call' = [op |-> "simulate_sha256_hashing", arg |-> request_code]
    /\ ret' = simulate_sha256_hashing(Self, request_code)
    /\ token_data' = Unbound
    /\ noted' = Aged
    /\ UNCHANGED <<fields, created, pc, locals, out, exc, peer>>

\* validate_token_exchange keeping the request code in self.redirect_uri
ValidateTokenExchangeStoring(request_code) ==
    /\ pc = "idle"
    /\ call' = [op |-> "validate_token_exchange", arg |-> request_code]
    /\ LET r == validate_token_exchange(Self, request_code)
       IN  /\ ret' = r.value
           /\ token_data' = r.token_data
    /\ redirect_uri' = request_code
    /\ noted' = Aged
    /\ UNCHANGED <<api_key, api_secret, token_endpoint, auth_portal, created, pc,
                   locals, out, exc, peer>>

ValidateTokenExchange(request_code) ==
    /\ pc = "idle"
    /\ call' = [op |-> "validate_token_exchange", arg |-> request_code]
    /\ LET r == validate_token_exchange(Self, request_code)
       IN  /\ ret' = r.value
           /\ token_data' = r.token_data
    /\ noted' = Aged
    /\ UNCHANGED <<fields, created, pc, locals, out, exc, peer>>

\* history kept for the properties: the caller keeps the digest it was just given,
\* to compare a later one with
Note ==
    /\ pc = "idle"
    /\ call.op = "simulate_sha256_hashing"
    /\ noted /= [call |-> call, ret |-> ret, later |-> FALSE]
    /\ noted' = [call |-> call, ret |-> ret, later |-> FALSE]
    /\ UNCHANGED <<fields, created, call, ret, token_data, pc, locals, out, exc, peer>>

----------------------------------------------------------------------------
(* test_authentication_flow, statement by statement; the module-level run  *)
(* is this call on DefaultSimulator.  An exception leaves the method and,  *)
(* nothing catching it, ends the program.                                  *)

Raise(e) ==
    /\ exc' = e
    /\ pc' = "raised"
    /\ UNCHANGED out

TestStart ==
    /\ pc = "idle"
    /\ pc' = "login"
    /\ call' = [op |-> "test_authentication_flow", arg |-> ""]
    /\ ret' = NoValue
    /\ token_data' = Unbound
    /\ out' = <<"Testing Authentication Flow...">>
    /\ noted' = Aged
    /\ UNCHANGED <<fields, created, locals, exc, peer>>

\* Step 1 without its assertion
TestLoginUnchecked ==
    /\ pc = "login"
    /\ login_result' = generate_login_url(Self)
    /\ out' = Append(out, "Login URL generation: PASSED")
    /\ pc' = "exchange"
    /\ UNCHANGED <<fields, created, call, ret, token_data, token_result,
                   hash_result, exc, noted, peer>>

\* Step 1: Generate login URL
TestLogin ==
    /\ pc = "login"
    /\ LET r == generate_login_url(Self)
       IN  /\ login_result' = r
           /\ IF "success" \notin DOMAIN r THEN Raise("KeyError: 'success'")
              ELSE IF ~r.success
              THEN Raise("AssertionError: Login URL generation failed")
              ELSE /\ out' = Append(out, "Login URL generation: PASSED")
                   /\ pc' = "exchange"
                   /\ UNCHANGED exc
    /\ UNCHANGED <<fields, created, call, ret, token_data, token_result,
                   hash_result, noted, peer>>

\* Step 2: Simulate callback with request code
TestExchange ==
    /\ pc = "exchange"
    /\ LET r == validate_token_exchange(Self, MockRequestCode).value
       IN  /\ token_result' = r
           /\ IF "success" \notin DOMAIN r THEN Raise("KeyError: 'success'")
              ELSE IF ~r.success THEN Raise("AssertionError: Token exchange failed")
              ELSE /\ out' = Append(out, "Token exchange: PASSED")
                   /\ pc' = "hashing"
                   /\ UNCHANGED exc
    /\ UNCHANGED <<fields, created, call, ret, token_data, login_result,
                   hash_result, noted, peer>>

\* Step 3: Validate SHA-256 hashing
TestHashing ==
    /\ pc = "hashing"
    /\ LET r == simulate_sha256_hashing(Self, MockRequestCode)
       IN  /\ hash_result' = r
           /\ IF r.api_key /= api_key
              THEN Raise("AssertionError: API key validation failed")
              ELSE IF Len(r.api_secret) /= DigestLen
              THEN Raise("AssertionError: SHA-256 hash length invalid")
              ELSE /\ out' = out \o <<"SHA-256 hashing: PASSED",
                                      "All authentication tests PASSED!">>
                   /\ pc' = "return"
                   /\ UNCHANGED exc
    /\ UNCHANGED <<fields, created, call, ret, token_data, login_result,
                   token_result, noted, peer>>

\* return True; the locals are gone
TestReturn ==
    /\ pc = "return"
    /\ pc' = "idle"
    /\ ret' = True
    /\ login_result' = Unbound
    /\ token_result' = Unbound
    /\ hash_result' = Unbound
    /\ UNCHANGED <<fields, created, call, token_data, out, exc, noted, peer>>

TestStep == TestLogin \/ TestExchange \/ TestHashing \/ TestReturn

----------------------------------------------------------------------------
(* Calls on the second simulator *)

PeerSimulateSha256Hashing(request_code) ==
    /\ peer_call' = [op |-> "simulate_sha256_hashing", arg |-> request_code]
    /\ peer_ret' = simulate_sha256_hashing(Peer, request_code)
    /\ UNCHANGED <<fields, created, call, ret, token_data, pc, locals, out, exc,
                   noted, peer_key, peer_secret>>

PeerValidateTokenExchange(request_code) ==
    /\ peer_call' = [op |-> "validate_token_exchange", arg |-> request_code]
    /\ peer_ret' = validate_token_exchange(Peer, request_code).value
    /\ UNCHANGED <<fields, created, call, ret, token_data, pc, locals, out, exc,
                   noted, peer_key, peer_secret>>

----------------------------------------------------------------------------
(* Specifications *)

Next ==
    \/ GenerateLoginUrl
    \/ \E c \in RequestCodes : SimulateSha256Hashing(c)
    \/ \E c \in RequestCodes : ValidateTokenExchange(c)
    \/ Note
    \/ TestStart
    \/ TestStep

\* any sequence of calls on one simulator
Spec == Init /\ [][Next]_vars

\* the same; a call of test_authentication_flow that has started runs on, statement
\* after statement, until it returns or raises
FairSpec == Spec /\ WF_vars(TestStep)

\* two simulators that may differ in api_key and api_secret
PairInit ==
    /\ api_key \in ApiKeys
    /\ api_secret \in ApiSecrets
    /\ redirect_uri = DefaultRedirectUri
    /\ auth_portal = DefaultAuthPortal
    /\ peer_key \in ApiKeys
    /\ peer_secret \in ApiSecrets
    /\ InitCommon

PairNext ==
    \/ \E c \in RequestCodes : SimulateSha256Hashing(c)
    \/ \E c \in RequestCodes : ValidateTokenExchange(c)
    \/ \E c \in RequestCodes : PeerSimulateSha256Hashing(c)
    \/ \E c \in RequestCodes : PeerValidateTokenExchange(c)

PairSpec == PairInit /\ [][PairNext]_vars

----------------------------------------------------------------------------
(* Properties *)

Called(op) == pc = "idle" /\ call.op = op

\* a str value of the returned dict d contains s
Appears(s, d) ==
    \E f \in DOMAIN d \ {"success", "expires_in"} : Contains(d[f], s)

IsLowerHex(s) ==
    \A i \in 1..Len(s) : \E d \in 1..16 : CharAt(HexDigits, d) = CharAt(s, i)

IsConfigError(d) == DOMAIN d = {"error"}

\* digests computed by Python's hashlib for <<api_key, request_code, api_secret>>
KnownDigests == {
    <<"test_api_key", "test_request_code_123", "test_api_secret",
      "534a9ee956c42477378b59deee7ce1cadeaeb683db40262a1b5461201e985d31">>,
    <<"test_api_key", "abc123", "test_api_secret",
      "f855eda07486bae3bbc510033c511897ad6f6d95bca6fc7ca1eae216ca2886ac">>,
    <<"k", "t", "a",
      "b8db7864e5db6c2db3642506b6da3418b9d32366b17752d6e0748d7a7d21b75d">>,
    <<"k", "", "a",
      "3ebb1c99b12b77463e97c3a0f206e4fd46176cd1b8e183816a67338c04b25e5b">>,
    <<"", "abc123", "Ok",
      "45ef33a2d1f7dcaecde42a9d5cdd850d6063b0f85ac5e662cb22bf1f5e3b08d0">>,
    <<"k", "test_requ", "test_api_secret",
      "085cadc52f757699fcf7cd2f5e47321aaccc7eb900c1b9a065ae9662d1f5686a">>,
    <<"", "te", "a",
      "a9f74d1ec36ebdeb2da3f6e5868090cd2a2d20b3dcca7b62f60304b1d3d9ef42">>,
    <<"test_api_key", "test_req", "Ok",
      "6754499ea2d21f5766afba55c1a03f815ac71a99af2739c3d5b5968153d04cba">>}

\* C1: generate_login_url returns the error result, and no loginUrl, whenever
\* api_key or redirect_uri is empty, whatever the other field holds; so does the
\* call of it inside test_authentication_flow.
C1_ConfigError ==
    (api_key = "" \/ redirect_uri = "") =>
        /\ Called("generate_login_url") =>
               IsConfigError(ret) /\ "loginUrl" \notin DOMAIN ret
        /\ login_result /= Unbound =>
               IsConfigError(login_result) /\ "loginUrl" \notin DOMAIN login_result

C1_Witness ==
    /\ Called("generate_login_url")
    /\ api_key /= ""
    /\ redirect_uri = ""
    /\ ret = [error |-> "Missing configuration"]

\* C2: with api_key and redirect_uri both non-empty, generate_login_url returns
\* success with the URL auth_portal ?app_key= api_key &redirect_uri= redirect_uri,
\* nothing encoded: its length is the sum of the parts and both values occur in it.
C2_LoginUrl ==
    (Called("generate_login_url") /\ api_key /= "" /\ redirect_uri /= "") =>
        /\ DOMAIN ret = {"success", "loginUrl"}
        /\ ret.success = TRUE
        /\ ret.loginUrl = auth_portal \o "?app_key=" \o api_key
                          \o "&redirect_uri=" \o redirect_uri
        /\ Len(ret.loginUrl) = Len(auth_portal) + 9 + Len(api_key) + 14
                               + Len(redirect_uri)
        /\ Contains(ret.loginUrl, api_key)
        /\ Contains(ret.loginUrl, redirect_uri)
        /\ Self = DefaultSimulator =>
               ret.loginUrl = "https://auth.flattrade.in/?app_key=test_api_key&redirect_uri=http://localhost:5000/api/auth/callback"

C2_Witness ==
    /\ Called("generate_login_url")
    /\ api_key = "k"
    /\ redirect_uri = DefaultRedirectUri
    /\ ret.loginUrl = "p?app_key=k&redirect_uri=http://localhost:5000/api/auth/callback"

\* C3: validate_token_exchange called with an empty request code returns the error
\* result, with no token, expiry or status, and has hashed nothing when it returns.
C3_ExchangeError ==
    (Called("validate_token_exchange") /\ call.arg = "") =>
        /\ DOMAIN ret = {"error"}
        /\ token_data = Unbound

C3_Witness ==
    /\ Called("validate_token_exchange")
    /\ call.arg = ""
    /\ ret = [error |-> "No request code provided"]

\* C4: for a non-empty request code validate_token_exchange returns success, the
\* token "mock_token_" followed by the code's first 8 characters (all of it when
\* shorter), an expiry of 86400 and the status "Ok".
C4_TokenResult ==
    (Called("validate_token_exchange") /\ call.arg /= "") =>
        /\ DOMAIN ret = {"success", "token", "expires_in", "status"}
        /\ ret.success = TRUE
        /\ ret.token = "mock_token_" \o (IF Len(call.arg) <= 8 THEN call.arg
                                          ELSE SubSeq(call.arg, 1, 8))
        /\ ret.expires_in = 86400
        /\ ret.status = "Ok"
        /\ call.arg = "abc123" => ret.token = "mock_token_abc123"
        /\ call.arg = "test_request_code_123" => ret.token = "mock_token_test_req"

C4_Witness ==
    /\ Called("validate_token_exchange")
    /\ Len(call.arg) > 8
    /\ Len(ret.token) = 19

\* C5: simulate_sha256_hashing returns, as api_secret, the SHA-256 digest of
\* api_key + request_code + api_secret in that order: 64 lowercase hex digits,
\* equal to the digest hashlib gives for that string.
C5_Digest ==
    Called("simulate_sha256_hashing") =>
        /\ Len(ret.api_secret) = 64
        /\ IsLowerHex(ret.api_secret)
        /\ \A k \in KnownDigests :
               (api_key = k[1] /\ call.arg = k[2] /\ api_secret = k[3]) =>
                   ret.api_secret = k[4]

C5_Witness ==
    /\ Called("simulate_sha256_hashing")
    /\ Self = DefaultSimulator
    /\ call.arg = "test_request_code_123"
    /\ ret.api_secret
         = "534a9ee956c42477378b59deee7ce1cadeaeb683db40262a1b5461201e985d31"

\* C6: a call of simulate_sha256_hashing returns the digest an earlier call with
\* the same request code returned, whatever was called in between.
C6_Deterministic ==
    (Called("simulate_sha256_hashing") /\ noted.call = call) => ret = noted.ret

C6_Witness ==
    /\ Called("simulate_sha256_hashing")
    /\ noted.call = call
    /\ noted.later
    /\ call.arg /= ""
    /\ out /= <<>>

\* C7: no failure is thrown: every error is a returned value, and no path, that
\* of test_authentication_flow included, ends in an exception.
C7_NoFatalError ==
    /\ exc = "none"
    /\ pc /= "raised"

\* C8: the simulator's fields are, after any calls, what they were at construction.
C8_FieldsUnchanged == Self = created

C8_Witness ==
    /\ Called("validate_token_exchange")
    /\ "error" \in DOMAIN ret
    /\ noted.later
    /\ out /= <<>>

FlowLines ==
    <<"Testing Authentication Flow...", "Login URL generation: PASSED",
      "Token exchange: PASSED", "SHA-256 hashing: PASSED",
      "All authentication tests PASSED!">>

C9_Order ==
    /\ pc \in {"exchange", "hashing", "return"} =>
           "success" \in DOMAIN login_result /\ login_result.success
    /\ pc = "exchange" => out = SubSeq(FlowLines, 1, 2) /\ token_result = Unbound
    /\ pc \in {"hashing", "return"} =>
           "success" \in DOMAIN token_result /\ token_result.success
    /\ pc = "hashing" => out = SubSeq(FlowLines, 1, 3) /\ hash_result = Unbound
    /\ pc = "return" =>
           /\ hash_result.api_key = api_key
           /\ Len(hash_result.api_secret) = 64
           /\ hash_result.request_code = MockRequestCode
           /\ out = FlowLines
    /\ (Called("test_authentication_flow") /\ ret = True) => out = FlowLines
    /\ (Self = DefaultSimulator) => exc = "none"

\* C9: test_authentication_flow runs login URL, then token exchange, then the
\* hashing check; each step is reached only when the one before passed, True is
\* returned only after the three passed, and on the simulator as constructed a
\* started run goes on to return True.
C9_FlowOrder ==
    /\ []C9_Order
    /\ (pc = "login" /\ Self = DefaultSimulator)
           ~> (Called("test_authentication_flow") /\ ret = True)

C9_Witness ==
    /\ Called("test_authentication_flow")
    /\ Self = DefaultSimulator
    /\ ret = True
    /\ out = FlowLines

SameCallOnBoth(op) ==
    /\ Called(op)
    /\ peer_call = call

\* C10 as claimed: two simulators give the same result of validate_token_exchange
\* for the same request code, and api_secret occurs in no value returned by
\* simulate_sha256_hashing or validate_token_exchange.
C10_AsClaimed ==
    /\ SameCallOnBoth("validate_token_exchange") => ret = peer_ret
    /\ (Called("simulate_sha256_hashing") \/ Called("validate_token_exchange"))
           => ~Appears(api_secret, ret)

\* C10, amended: two simulators give the same result of validate_token_exchange
\* for the same request code; api_secret occurs in a value returned by
\* simulate_sha256_hashing only if it is empty, occurs in api_key or in the request
\* code, or is made of lowercase hex digits; and in a value returned by
\* validate_token_exchange only if it occurs in the text that is returned for that
\* request code whatever the secret.
C10_SecretNotReturned ==
    /\ SameCallOnBoth("validate_token_exchange") => ret = peer_ret
    /\ (Called("simulate_sha256_hashing") /\ Appears(api_secret, ret)) =>
           \/ api_secret = ""
           \/ Contains(api_key, api_secret)
           \/ Contains(call.arg, api_secret)
           \/ IsLowerHex(api_secret)
    /\ (Called("validate_token_exchange") /\ Appears(api_secret, ret)) =>
           \/ Contains("mock_token_" \o Prefix(call.arg, 8), api_secret)
           \/ Contains("Ok", api_secret)
           \/ Contains("No request code provided", api_secret)

C10_Witness ==
    /\ SameCallOnBoth("validate_token_exchange")
    /\ call.arg = "abc123"
    /\ api_key /= peer_key
    /\ api_secret /= peer_secret
    /\ api_secret = DefaultApiSecret
    /\ ret = peer_ret
    /\ ~Appears(api_secret, ret)
====
